---- MODULE Spec2Model ----
(***************************************************************************)
(* Product Catalog API (src/main.py, src/schemas.py): the request handlers *)
(* over the "category" and "product" collections of the document store,    *)
(* the bearer-token gate, the identifier codec and the listing query.      *)
(*                                                                         *)
(* Text is a sequence of one-character strings, so that prefixes, splits,  *)
(* case and lexicographic order are computed.  An Optional value is the   *)
(* empty sequence (None) or a one-element sequence holding the value.      *)
(***************************************************************************)
EXTENDS Integers, Sequences, FiniteSets, TLC

VARIABLES category, product, nextId, resp, reqs, raced, session

vars == <<category, product, nextId, resp, reqs, raced, session>>

-----------------------------------------------------------------------------
(* Bounds of the model *)

\* store-assigned identifiers handed out in one behaviour of Spec
MaxIds == 3

\* concurrent clients of SpecRace
NumClients == 2

\* documents of a catalog drawn for SpecList and SpecPaging
MaxCatalog == 3

-----------------------------------------------------------------------------
(* Text helpers *)

None == <<>>

Some(v) == <<v>>

Min(a, b) == IF a < b THEN a ELSE b

Abs(n) == IF n < 0 THEN -n ELSE n

\* str.startswith
StartsWith(s, prefix) ==
    /\ Len(s) >= Len(prefix)
    /\ SubSeq(s, 1, Len(prefix)) = prefix

\* s.split(" ", 1)[1]: what follows the first space of s (s holds a space)
AfterFirstSpace(s) ==
    LET i == CHOOSE k \in 1..Len(s) :
                 /\ s[k] = " "
                 /\ \A j \in 1..(k - 1) : s[j] # " "
    IN  SubSeq(s, i + 1, Len(s))

-----------------------------------------------------------------------------
(* Identifier codec: bson.ObjectId and ObjectIdStr *)

ObjectIdLen == 24

HexLower == <<"0", "1", "2", "3", "4", "5", "6", "7", "8", "9",
              "a", "b", "c", "d", "e", "f">>

HexUpper == <<"0", "1", "2", "3", "4", "5", "6", "7", "8", "9",
              "A", "B", "C", "D", "E", "F">>

IsHex(c) == \E k \in 1..16 : HexLower[k] = c \/ HexUpper[k] = c

HexVal(c) == (CHOOSE k \in 1..16 : HexLower[k] = c \/ HexUpper[k] = c) - 1

\* ObjectId.is_valid on a string: 24 hexadecimal digits, either case
ObjectIdValid(s) ==
    /\ Len(s) = ObjectIdLen
    /\ \A i \in 1..Len(s) : IsHex(s[i])

\* ObjectId(s): the 12 bytes the 24 digits denote
ObjectId(s) ==
    [i \in 1..(ObjectIdLen \div 2) |->
        16 * HexVal(s[2 * i - 1]) + HexVal(s[2 * i])]

\* str(oid): two lowercase digits per byte
ObjectIdToStr(oid) ==
    [i \in 1..(2 * Len(oid)) |->
        IF i % 2 = 1
        THEN HexLower[(oid[(i + 1) \div 2] \div 16) + 1]
        ELSE HexLower[(oid[i \div 2] % 16) + 1]]

\* ObjectIdStr.validate: the canonical string, or None for ValueError
ObjectIdStr_validate(v) ==
    IF ObjectIdValid(v) THEN Some(ObjectIdToStr(ObjectId(v))) ELSE None

-----------------------------------------------------------------------------
(* Auth gate *)

admin_token == <<"a", "d", "m", "i", "n", "-", "t", "o", "k", "e", "n">>

Bearer == <<"B", "e", "a", "r", "e", "r", " ">>

\* a gate that accepts any header with the Bearer scheme
require_auth_scheme_only(authorization) ==
    IF authorization = None \/ authorization[1] = <<>>
       \/ ~StartsWith(authorization[1], Bearer)
    THEN [status |-> 401, detail |-> "Unauthorized"]
    ELSE [status |-> 200, detail |-> ""]

\* require_auth: 200 stands for "returns normally"
require_auth(authorization) ==
    IF authorization = None \/ authorization[1] = <<>>
       \/ ~StartsWith(authorization[1], Bearer)
    THEN [status |-> 401, detail |-> "Unauthorized"]
    ELSE IF AfterFirstSpace(authorization[1]) # admin_token
         THEN [status |-> 401, detail |-> "Invalid token"]
         ELSE [status |-> 200, detail |-> ""]

-----------------------------------------------------------------------------
(* Store primitives (pymongo collection calls) and the serializer *)

\* collection.find_one({"_id": oid})
find_one_by_id(coll, oid) ==
    IF \E i \in 1..Len(coll) : coll[i]["_id"] = oid
    THEN Some(coll[CHOOSE i \in 1..Len(coll) :
                      /\ coll[i]["_id"] = oid
                      /\ \A j \in 1..(i - 1) : coll[j]["_id"] # oid])
    ELSE None

\* collection.find_one({"slug": slug})
find_one_by_slug(coll, slug) ==
    IF \E i \in 1..Len(coll) : coll[i].slug = slug
    THEN Some(coll[CHOOSE i \in 1..Len(coll) :
                      /\ coll[i].slug = slug
                      /\ \A j \in 1..(i - 1) : coll[j].slug # slug])
    ELSE None

\* the position update_one / delete_one act on: the first match, 0 if none
FirstMatch(coll, oid) ==
    IF \E i \in 1..Len(coll) : coll[i]["_id"] = oid
    THEN CHOOSE i \in 1..Len(coll) :
             /\ coll[i]["_id"] = oid
             /\ \A j \in 1..(i - 1) : coll[j]["_id"] # oid
    ELSE 0

\* collection.update_one({"_id": oid}, {"$set": fields})
update_one(coll, oid, fields) ==
    LET m == FirstMatch(coll, oid)
    IN  [coll |-> [i \in 1..Len(coll) |->
                      IF i = m THEN fields @@ coll[i] ELSE coll[i]],
         matched_count |-> IF m = 0 THEN 0 ELSE 1]

\* collection.delete_one({"_id": oid})
delete_one(coll, oid) ==
    LET m == FirstMatch(coll, oid)
    IN  [coll |-> IF m = 0 THEN coll
                  ELSE SubSeq(coll, 1, m - 1) \o SubSeq(coll, m + 1, Len(coll)),
         deleted_count |-> IF m = 0 THEN 0 ELSE 1]

\* create_document(collection, data): insert the dumped model under a fresh
\* store-assigned identifier; returns the collection and str(inserted_id)
create_document(coll, data, oid) ==
    [coll |-> Append(coll, ("_id" :> oid) @@ data),
     new_id |-> ObjectIdToStr(oid)]

\* serialize_doc on an Optional document
serialize_doc(doc) ==
    IF doc = None THEN doc
    ELSE Some(("id" :> ObjectIdToStr(doc[1]["_id"]))
              @@ [k \in (DOMAIN doc[1]) \ {"_id"} |-> doc[1][k]])

-----------------------------------------------------------------------------
(* Request inputs *)

\* Authorization headers: absent, empty, no scheme, wrong token, the admin
\* token
Headers ==
    { None,
      Some(<<>>),
      Some(admin_token),
      Some(Bearer \o <<"x">>),
      Some(Bearer \o admin_token) }

Pad == [i \in 1..(ObjectIdLen - 2) |-> "0"]

Digit(n) == HexLower[n + 1]

\* the n-th identifier the store assigns
NewObjectId(n) == ObjectId(Pad \o <<"a", Digit(n)>>)

\* path identifiers: every assignable identifier in canonical form, one in
\* upper case, one with a non-hexadecimal digit, one a digit short
PathIds ==
    { Pad \o <<"a", Digit(n)>> : n \in 1..MaxIds }
    \cup { Pad \o <<"A", "1">>, Pad \o <<"z", "1">>, Pad \o <<"a">> }

\* Category payloads (schemas.Category, dumped)
Categories ==
    { [name |-> "Elektronik", slug |-> "elektronik", description |-> None],
      [name |-> "Gadget", slug |-> "elektronik", description |-> Some("d")],
      [name |-> "Pakaian", slug |-> "pakaian", description |-> None] }

\* Product payloads (schemas.Product, dumped); price in whole currency units
Prod(n, p, c, f) ==
    [name |-> n, description |-> None, price |-> p, category |-> c,
     images |-> <<>>, in_stock |-> TRUE, stock |-> None, featured |-> f]

Products ==
    { Prod(<<"a">>, 0, "elektronik", TRUE),
      Prod(<<"A", "b">>, 1, "pakaian", FALSE) }

-----------------------------------------------------------------------------
(* Handlers by identifier, as functions of the collection and the request. *)
(* The dependency require_auth runs first, then the path parameter is      *)
(* validated, then the handler body.                                       *)

\* what a handler leaves: the collection, the response, and how many store
\* calls it issued
Reply(coll, status, body, calls) ==
    [coll |-> coll, status |-> status, body |-> body, calls |-> calls]

\* an update that never reports a missing document
update_no_404(coll, authorization, id, fields) ==
    LET auth == require_auth(authorization)
        v == ObjectIdStr_validate(id)
    IN  IF auth.status # 200 THEN Reply(coll, auth.status, Some(auth.detail), 0)
        ELSE IF v = None THEN Reply(coll, 422, Some("Invalid ObjectId"), 0)
        ELSE LET res == update_one(coll, ObjectId(v[1]), fields)
             IN  Reply(res.coll, 200,
                       serialize_doc(find_one_by_id(res.coll, ObjectId(v[1]))), 2)

\* update_category / update_product
update_handler(coll, authorization, id, fields) ==
    LET auth == require_auth(authorization)
        v == ObjectIdStr_validate(id)
    IN  IF auth.status # 200 THEN Reply(coll, auth.status, Some(auth.detail), 0)
        ELSE IF v = None THEN Reply(coll, 422, Some("Invalid ObjectId"), 0)
        ELSE LET res == update_one(coll, ObjectId(v[1]), fields)
             IN  IF res.matched_count = 0
                 THEN Reply(res.coll, 404, Some("not found"), 1)
                 ELSE Reply(res.coll, 200,
                            serialize_doc(find_one_by_id(res.coll, ObjectId(v[1]))),
                            2)

\* delete_category / delete_product
delete_handler(coll, authorization, id) ==
    LET auth == require_auth(authorization)
        v == ObjectIdStr_validate(id)
    IN  IF auth.status # 200 THEN Reply(coll, auth.status, Some(auth.detail), 0)
        ELSE IF v = None THEN Reply(coll, 422, Some("Invalid ObjectId"), 0)
        ELSE LET res == delete_one(coll, ObjectId(v[1]))
             IN  IF res.deleted_count = 0
                 THEN Reply(res.coll, 404, Some("not found"), 1)
                 ELSE Reply(res.coll, 200, Some("deleted"), 1)

\* a lookup that takes the path text as it came: nothing found for text
\* that is no identifier
get_unvalidated(coll, id) ==
    LET doc == IF ObjectIdValid(id) THEN find_one_by_id(coll, ObjectId(id))
               ELSE None
    IN  IF doc = None THEN Reply(coll, 404, Some("not found"), 1)
        ELSE Reply(coll, 200, serialize_doc(doc), 1)

\* get_product
get_handler(coll, id) ==
    LET v == ObjectIdStr_validate(id)
    IN  IF v = None THEN Reply(coll, 422, Some("Invalid ObjectId"), 0)
        ELSE LET doc == find_one_by_id(coll, ObjectId(v[1]))
             IN  IF doc = None THEN Reply(coll, 404, Some("not found"), 1)
                 ELSE Reply(coll, 200, serialize_doc(doc), 1)

\* a create that skips the slug lookup
create_unchecked(coll, authorization, cat, oid) ==
    LET auth == require_auth(authorization)
    IN  IF auth.status # 200 THEN Reply(coll, auth.status, Some(auth.detail), 0)
        ELSE LET ins == create_document(coll, cat, oid)
             IN  Reply(ins.coll, 200,
                       serialize_doc(find_one_by_id(ins.coll, ObjectId(ins.new_id))),
                       2)

\* create_category, run to completion
create_category_handler(coll, authorization, cat, oid) ==
    LET auth == require_auth(authorization)
    IN  IF auth.status # 200 THEN Reply(coll, auth.status, Some(auth.detail), 0)
        ELSE IF find_one_by_slug(coll, cat.slug) # None
        THEN Reply(coll, 400, Some("Slug already exists"), 1)
        ELSE LET ins == create_document(coll, cat, oid)
             IN  Reply(ins.coll, 200,
                       serialize_doc(find_one_by_id(ins.coll, ObjectId(ins.new_id))),
                       3)

\* create_product
create_product_handler(coll, authorization, prod, oid) ==
    LET auth == require_auth(authorization)
    IN  IF auth.status # 200 THEN Reply(coll, auth.status, Some(auth.detail), 0)
        ELSE LET ins == create_document(coll, prod, oid)
             IN  Reply(ins.coll, 200,
                       serialize_doc(find_one_by_id(ins.coll, ObjectId(ins.new_id))),
                       2)

\* admin_summary: two count_documents({}) calls
admin_summary_handler(products, categories, authorization) ==
    LET auth == require_auth(authorization)
    IN  IF auth.status # 200 THEN Reply(<<>>, auth.status, Some(auth.detail), 0)
        ELSE Reply(<<>>, 200,
                   Some([products |-> Len(products),
                         categories |-> Len(categories)]), 2)

-----------------------------------------------------------------------------
(* Spec: requests served one at a time.  resp holds the request just       *)
(* served and its response until it is delivered.                          *)

Idle == [op |-> "idle"]

Clients == 1..NumClients

IdleReq == [pc |-> "idle"]

Served(op, authorization, id, payload, r) ==
    [op |-> op, authorization |-> authorization, id |-> id,
     payload |-> payload, status |-> r.status, body |-> r.body,
     calls |-> r.calls]

\* an insert happened iff the collection grew
Grew(coll, r) == Len(r.coll) > Len(coll)

create_category ==
    /\ resp = Idle
    /\ \E authorization \in Headers, cat \in Categories :
          LET r == create_category_handler(category, authorization, cat,
                                           NewObjectId(nextId))
          IN  /\ Grew(category, r) => nextId <= MaxIds
              /\ category' = r.coll
              /\ nextId' = IF Grew(category, r) THEN nextId + 1 ELSE nextId
              /\ resp' = Served("create_category", authorization, None, Some(cat), r)
    /\ UNCHANGED <<product, reqs, raced, session>>

update_category ==
    /\ resp = Idle
    /\ \E authorization \in Headers, id \in PathIds, cat \in Categories :
          LET r == update_handler(category, authorization, id, cat)
          IN  /\ category' = r.coll
              /\ resp' = Served("update_category", authorization, Some(id), Some(cat), r)
    /\ UNCHANGED <<product, nextId, reqs, raced, session>>

delete_category ==
    /\ resp = Idle
    /\ \E authorization \in Headers, id \in PathIds :
          LET r == delete_handler(category, authorization, id)
          IN  /\ category' = r.coll
              /\ resp' = Served("delete_category", authorization, Some(id), None, r)
    /\ UNCHANGED <<product, nextId, reqs, raced, session>>

create_product ==
    /\ resp = Idle
    /\ \E authorization \in Headers, prod \in Products :
          LET r == create_product_handler(product, authorization, prod,
                                          NewObjectId(nextId))
          IN  /\ Grew(product, r) => nextId <= MaxIds
              /\ product' = r.coll
              /\ nextId' = IF Grew(product, r) THEN nextId + 1 ELSE nextId
              /\ resp' = Served("create_product", authorization, None, Some(prod), r)
    /\ UNCHANGED <<category, reqs, raced, session>>

update_product ==
    /\ resp = Idle
    /\ \E authorization \in Headers, id \in PathIds, prod \in Products :
          LET r == update_handler(product, authorization, id, prod)
          IN  /\ product' = r.coll
              /\ resp' = Served("update_product", authorization, Some(id), Some(prod), r)
    /\ UNCHANGED <<category, nextId, reqs, raced, session>>

delete_product ==
    /\ resp = Idle
    /\ \E authorization \in Headers, id \in PathIds :
          LET r == delete_handler(product, authorization, id)
          IN  /\ product' = r.coll
              /\ resp' = Served("delete_product", authorization, Some(id), None, r)
    /\ UNCHANGED <<category, nextId, reqs, raced, session>>

get_product ==
    /\ resp = Idle
    /\ \E id \in PathIds :
          LET r == get_handler(product, id)
          IN  resp' = Served("get_product", None, Some(id), None, r)
    /\ UNCHANGED <<category, product, nextId, reqs, raced, session>>

admin_summary ==
    /\ resp = Idle
    /\ \E authorization \in Headers :
          LET r == admin_summary_handler(product, category, authorization)
          IN  resp' = Served("admin_summary", authorization, None, None, r)
    /\ UNCHANGED <<category, product, nextId, reqs, raced, session>>

\* the response leaves; the service keeps no state of the request
Deliver ==
    /\ resp # Idle
    /\ resp' = Idle
    /\ UNCHANGED <<category, product, nextId, reqs, raced, session>>

Init ==
    /\ category = <<>>
    /\ product = <<>>
    /\ nextId = 1
    /\ resp = Idle
    /\ reqs = [c \in Clients |-> IdleReq]
    /\ raced = {}
    /\ session = Idle

Next ==
    \/ create_category
    \/ update_category
    \/ delete_category
    \/ create_product
    \/ update_product
    \/ delete_product
    \/ get_product
    \/ admin_summary
    \/ Deliver

Spec == Init /\ [][Next]_vars

-----------------------------------------------------------------------------
(* SpecRace: create_category served to concurrent clients.  The handler    *)
(* issues three store calls (lookup by slug, insert, fetch by identifier); *)
(* each is one step, and steps of different clients interleave.            *)

\* the created document fetched by its slug
fetch_by_slug(coll, r) == find_one_by_slug(coll, r.cat.slug)

\* created = db["category"].find_one({"_id": ObjectId(new_id)})
fetch_created(coll, r) == find_one_by_id(coll, ObjectId(r.new_id))

race_receive(c) ==
    /\ reqs[c].pc = "idle"
    /\ \E authorization \in Headers, cat \in Categories :
          LET auth == require_auth(authorization)
          IN  reqs' = [reqs EXCEPT ![c] =
                  IF auth.status # 200
                  THEN [pc |-> "done", cat |-> cat, new_id |-> <<>>,
                        status |-> auth.status, body |-> Some(auth.detail)]
                  ELSE [pc |-> "lookup", cat |-> cat, new_id |-> <<>>,
                        status |-> 0, body |-> None]]
    /\ UNCHANGED <<category, product, nextId, resp, raced, session>>

race_lookup(c) ==
    /\ reqs[c].pc = "lookup"
    /\ IF find_one_by_slug(category, reqs[c].cat.slug) # None
       THEN /\ reqs' = [reqs EXCEPT ![c].pc = "done", ![c].status = 400,
                                    ![c].body = Some("Slug already exists")]
            /\ raced' = raced
       ELSE /\ reqs' = [reqs EXCEPT ![c].pc = "insert"]
            /\ raced' = raced \cup
                   { {c, d} : d \in {d \in Clients \ {c} :
                                       /\ reqs[d].pc = "insert"
                                       /\ reqs[d].cat.slug = reqs[c].cat.slug} }
    /\ UNCHANGED <<category, product, nextId, resp, session>>

race_insert(c) ==
    /\ reqs[c].pc = "insert"
    /\ LET ins == create_document(category, reqs[c].cat, NewObjectId(nextId))
       IN  /\ category' = ins.coll
           /\ reqs' = [reqs EXCEPT ![c].pc = "fetch", ![c].new_id = ins.new_id]
    /\ nextId' = nextId + 1
    /\ UNCHANGED <<product, resp, raced, session>>

race_fetch(c) ==
    /\ reqs[c].pc = "fetch"
    /\ reqs' = [reqs EXCEPT ![c].pc = "done", ![c].status = 200,
                            ![c].body = serialize_doc(fetch_created(category, reqs[c]))]
    /\ UNCHANGED <<category, product, nextId, resp, raced, session>>

NextRace ==
    \E c \in Clients :
        \/ race_receive(c)
        \/ race_lookup(c)
        \/ race_insert(c)
        \/ race_fetch(c)

SpecRace == Init /\ [][NextRace]_vars

-----------------------------------------------------------------------------
(* Product listing: the query builder and the cursor *)

DefaultLimit == 12

MaxLimit == 100

FeaturedDefaultLimit == 8

\* the characters of the names used, in code-point order
CharOrder ==
    <<" ", "A", "H", "S", "a", "b", "c", "d", "e", "f", "g", "h", "i",
      "j", "k", "l", "r", "s", "t">>

Code(c) == CHOOSE k \in 1..Len(CharOrder) : CharOrder[k] = c

\* case folding of the "i" regex option
Fold(c) ==
    CASE c = "A" -> "a" [] c = "H" -> "h" [] c = "S" -> "s" [] OTHER -> c

\* {"$regex": pattern, "$options": "i"} for a pattern of literal characters:
\* the pattern occurs somewhere in the text, case ignored
regex_match(text, pattern) ==
    \E i \in 0..(Len(text) - Len(pattern)) :
        \A j \in 1..Len(pattern) : Fold(text[i + j]) = Fold(pattern[j])

\* the store's comparison of two strings: code point by code point, a proper
\* prefix first
LexLess(a, b) ==
    \E k \in 1..(Min(Len(a), Len(b)) + 1) :
        /\ \A j \in 1..(k - 1) : a[j] = b[j]
        /\ k <= Len(b)
        /\ (k <= Len(a) => Code(a[k]) < Code(b[k]))

\* a query that drops a price bound of 0 as if it were absent
build_query_truthy(search, cat, minPrice, maxPrice) ==
    [name |-> IF search # None /\ search[1] # <<>> THEN search ELSE None,
     category |-> IF cat # None /\ cat[1] # "" THEN cat ELSE None,
     price |-> IF (minPrice # None /\ minPrice[1] # 0)
                  \/ (maxPrice # None /\ maxPrice[1] # 0)
               THEN Some([gte |-> IF minPrice # None /\ minPrice[1] # 0
                                  THEN minPrice ELSE None,
                          lte |-> IF maxPrice # None /\ maxPrice[1] # 0
                                  THEN maxPrice ELSE None])
               ELSE None]

\* q: the filter document list_products builds
build_query(search, cat, minPrice, maxPrice) ==
    [name |-> IF search # None /\ search[1] # <<>> THEN search ELSE None,
     category |-> IF cat # None /\ cat[1] # "" THEN cat ELSE None,
     price |-> IF minPrice # None \/ maxPrice # None
               THEN Some([gte |-> minPrice, lte |-> maxPrice])
               ELSE None]

\* whether the store matches a document against q
query_matches(doc, q) ==
    /\ q.name # None => regex_match(doc.name, q.name[1])
    /\ q.category # None => doc.category = q.category[1]
    /\ q.price # None =>
          /\ q.price[1].gte # None => doc.price >= q.price[1].gte[1]
          /\ q.price[1].lte # None => doc.price <= q.price[1].lte[1]

\* collection.find(q), in the store's natural order
find(coll, q) == SelectSeq(coll, LAMBDA doc : query_matches(doc, q))

\* collection.count_documents(q)
count_documents(coll, q) == Len(find(coll, q))

\* sort_field, sort_dir
sort_spec(sort) ==
    IF sort = Some("price_asc") THEN [field |-> Some("price"), dir |-> 1]
    ELSE IF sort = Some("price_desc") THEN [field |-> Some("price"), dir |-> -1]
    ELSE IF sort = Some("name_asc") THEN [field |-> Some("name"), dir |-> 1]
    ELSE [field |-> None, dir |-> 1]

\* a comes strictly before b under sort(field, dir)
SortsBefore(a, b, field, dir) ==
    IF field = "price"
    THEN IF dir = 1 THEN a.price < b.price ELSE a.price > b.price
    ELSE IF dir = 1 THEN LexLess(a.name, b.name) ELSE LexLess(b.name, a.name)

\* cursor.sort(field, dir): the documents at positions I of docs in every
\* order the sort allows; the store fixes no order among documents that tie on
\* the field, and each query may see another
RECURSIVE cursor_sort(_, _, _, _)
cursor_sort(docs, I, field, dir) ==
    IF I = {} THEN {<<>>}
    ELSE UNION { { <<docs[i]>> \o rest :
                     rest \in cursor_sort(docs, I \ {i}, field, dir) } :
                 i \in { i \in I : \A j \in I :
                            ~SortsBefore(docs[j], docs[i], field, dir) } }

\* cursor.skip(n)
cursor_skip(docs, n) == SubSeq(docs, n + 1, Len(docs))

\* cursor.limit(n): 0 is no limit, a negative n is a limit of -n
cursor_limit(docs, n) ==
    IF n = 0 THEN docs ELSE SubSeq(docs, 1, Min(Abs(n), Len(docs)))

\* a window that starts one page late
skip_count_late(page, limit) == page * limit

\* (page - 1) * limit
skip_count(page, limit) == (page - 1) * limit

clamp_page(page) == IF page < 1 THEN 1 ELSE page

clamp_limit(limit) ==
    IF limit < 1 \/ limit > MaxLimit THEN DefaultLimit ELSE limit

\* list_products: every response the store's choice of order allows; cursor
\* is the full sorted result the window is cut from
list_products_handler(coll, search, cat, minPrice, maxPrice, sort, page, limit) ==
    LET page1 == clamp_page(page)
        limit1 == clamp_limit(limit)
        q == build_query(search, cat, minPrice, maxPrice)
        found == find(coll, q)
        total == count_documents(coll, q)
        s == sort_spec(sort)
        sorted == IF s.field # None
                  THEN cursor_sort(found, 1..Len(found), s.field[1], s.dir)
                  ELSE {found}
    IN  { LET window == cursor_limit(cursor_skip(cur, skip_count(page1, limit1)),
                                     limit1)
          IN  [cursor |-> cur,
               items |-> [i \in 1..Len(window) |-> serialize_doc(Some(window[i]))[1]],
               total |-> total, page |-> page1, limit |-> limit1] :
          cur \in sorted }

\* featured_products
featured_products_handler(coll, limit) ==
    LET found == SelectSeq(coll, LAMBDA doc : doc.featured = TRUE)
    IN  { LET window == cursor_limit(cur, limit)
          IN  [cursor |-> cur,
               items |-> [i \in 1..Len(window) |-> serialize_doc(Some(window[i]))[1]]] :
          cur \in cursor_sort(found, 1..Len(found), "name", 1) }

-----------------------------------------------------------------------------
(* SpecList: one listing request on a catalog that does not change *)

\* products of a catalog of at most MaxCatalog documents
ListProducts ==
    Products \cup { Prod(<<"b">>, 1, "elektronik", TRUE) }

\* the stored form of a sequence of payloads
Stored(payloads) ==
    [i \in 1..Len(payloads) |-> ("_id" :> NewObjectId(i)) @@ payloads[i]]

Letters == <<"a", "b", "c", "d", "e", "f", "g", "h", "i", "j", "k", "l">>

Shirt(i) ==
    Prod(<<"S", "h", "i", "r", "t", " ", Letters[i]>>, 13 - i,
         IF i % 2 = 0 THEN "pakaian" ELSE "elektronik", i % 3 = 0)

\* twelve shirts (spec 8: 12 products match search=shirt) around one hat
Catalog13 ==
    Stored([i \in 1..13 |->
               IF i < 7 THEN Shirt(i)
               ELSE IF i = 7 THEN Prod(<<"H", "a", "t">>, 20, "pakaian", TRUE)
               ELSE Shirt(i - 1)])

Catalogs ==
    { Stored(ps) : ps \in UNION { [1..n -> ListProducts] : n \in 0..MaxCatalog } }
    \cup { Catalog13 }

Searches == { None, Some(<<"a">>), Some(<<"s", "h", "i", "r", "t">>) }

CategoryFilters == { None, Some(""), Some("elektronik") }

MinPrices == { None, Some(1) }

MaxPrices == { None, Some(0), Some(1) }

Sorts == { None, Some("price_asc"), Some("price_desc"), Some("name_asc"),
           Some("newest") }

Pages == 0..3

Limits == { 0, 1, 2, 5, MaxLimit + 1 }

FeaturedLimits == { -1, 0, 1, 2, FeaturedDefaultLimit }

list_products ==
    /\ resp = Idle
    /\ \E search \in Searches, cat \in CategoryFilters, minPrice \in MinPrices,
          maxPrice \in MaxPrices, sort \in Sorts, page \in Pages, limit \in Limits :
          \E r \in list_products_handler(product, search, cat, minPrice,
                                         maxPrice, sort, page, limit) :
             resp' = [op |-> "list_products",
                      req |-> [search |-> search, category |-> cat,
                               minPrice |-> minPrice, maxPrice |-> maxPrice,
                               sort |-> sort, page |-> page, limit |-> limit],
                      status |-> 200, cursor |-> r.cursor, items |-> r.items,
                      total |-> r.total, page |-> r.page, limit |-> r.limit]
    /\ UNCHANGED <<category, product, nextId, reqs, raced, session>>

featured_products ==
    /\ resp = Idle
    /\ \E limit \in FeaturedLimits :
          \E r \in featured_products_handler(product, limit) :
             resp' = [op |-> "featured_products", req |-> [limit |-> limit],
                      status |-> 200, cursor |-> r.cursor, items |-> r.items]
    /\ UNCHANGED <<category, product, nextId, reqs, raced, session>>

InitList ==
    /\ category = <<>>
    /\ product \in Catalogs
    /\ nextId = Len(product) + 1
    /\ resp = Idle
    /\ reqs = [c \in Clients |-> IdleReq]
    /\ raced = {}
    /\ session = Idle

NextList ==
    \/ list_products
    \/ featured_products
    \/ Deliver

SpecList == InitList /\ [][NextList]_vars

-----------------------------------------------------------------------------
(* SpecPaging: a client reads a listing page by page, page 1 up to         *)
(* ceil(total / limit), with the filters, the sort key and the limit fixed, *)
(* on a catalog that does not change.  Each page is one list_products      *)
(* request.                                                                *)

PagingLimits == { 1, 2, 5 }

CeilDiv(a, b) == (a + b - 1) \div b

paging_start ==
    /\ session = Idle
    /\ \E search \in { None, Some(<<"s", "h", "i", "r", "t">>) },
          cat \in { None, Some("elektronik") }, maxPrice \in { None, Some(1) },
          sort \in Sorts, limit \in PagingLimits :
          session' = [op |-> "paging",
                      req |-> [search |-> search, category |-> cat,
                               minPrice |-> None, maxPrice |-> maxPrice,
                               sort |-> sort, limit |-> limit],
                      page |-> 1, acc |-> <<>>, done |-> FALSE]
    /\ UNCHANGED <<category, product, nextId, resp, reqs, raced>>

paging_fetch ==
    /\ session # Idle
    /\ ~session.done
    /\ \E r \in list_products_handler(product, session.req.search,
                                      session.req.category, session.req.minPrice,
                                      session.req.maxPrice, session.req.sort,
                                      session.page, session.req.limit) :
          session' = [session EXCEPT
                         !.acc = session.acc \o r.items,
                         !.page = session.page + 1,
                         !.done = session.page >= CeilDiv(r.total, r.limit)]
    /\ UNCHANGED <<category, product, nextId, resp, reqs, raced>>

NextPaging ==
    \/ paging_start
    \/ paging_fetch

SpecPaging == InitList /\ [][NextPaging]_vars

-----------------------------------------------------------------------------
(* Vocabulary of the properties, stated without the handlers' operators *)

HexChars ==
    {"0", "1", "2", "3", "4", "5", "6", "7", "8", "9",
     "a", "b", "c", "d", "e", "f", "A", "B", "C", "D", "E", "F"}

WellFormed(id) ==
    /\ Len(id) = ObjectIdLen
    /\ \A i \in 1..Len(id) : id[i] \in HexChars

LowerChar(c) ==
    CASE c = "A" -> "a" [] c = "B" -> "b" [] c = "C" -> "c"
      [] c = "D" -> "d" [] c = "E" -> "e" [] c = "F" -> "f"
      [] OTHER -> c

Canonical(id) == [i \in 1..Len(id) |-> LowerChar(id[i])]

\* the document carries the identifier the path text denotes
HasId(doc, id) == ObjectIdToStr(doc["_id"]) = Canonical(id)

Matches(coll, id) == {i \in 1..Len(coll) : HasId(coll[i], id)}

ValidHeader == Some(Bearer \o admin_token)

GuardedOps ==
    {"create_category", "update_category", "delete_category",
     "create_product", "update_product", "delete_product", "admin_summary"}

ByIdOps ==
    {"get_product", "update_category", "delete_category",
     "update_product", "delete_product"}

CategoryOps == {"create_category", "update_category", "delete_category"}

StoreUnchanged ==
    /\ category' = category
    /\ product' = product
    /\ nextId' = nextId

\* the collection a request addresses, before and after it is served
Before(op) == IF op \in CategoryOps THEN category ELSE product

After(op) == IF op \in CategoryOps THEN category' ELSE product'

Without(coll, i) == SubSeq(coll, 1, i - 1) \o SubSeq(coll, i + 1, Len(coll))

-----------------------------------------------------------------------------
(* Properties of Spec *)

\* C1: a request to a guarded endpoint whose Authorization header is not
\* "Bearer " followed by the configured token is answered 401, issues no
\* store call and leaves both collections as they were; so a guarded request
\* that is answered otherwise, or touches the store, carried the token.
C1_AuthGate ==
    [][ (resp'.op \in GuardedOps /\ resp'.authorization # ValidHeader)
            => /\ resp'.status = 401
               /\ resp'.calls = 0
               /\ StoreUnchanged ]_vars

C1_Witness ==
    /\ resp.op = "delete_category"
    /\ resp.authorization = Some(Bearer \o <<"x">>)
    /\ resp.status = 401
    /\ Matches(category, resp.id[1]) # {}

\* C2 as stated: on get, update and delete by identifier, a malformed
\* identifier is answered with the InvalidIdentifier response (422).
C2_Original ==
    [][ (resp'.op \in ByIdOps /\ ~WellFormed(resp'.id[1]))
            => resp'.status = 422 ]_vars

\* C2 amended: a malformed identifier is never answered 404, reaches no store
\* call and changes nothing; it is answered 422 on get_product and on an
\* update or delete that carries the admin token (without the token the
\* answer is 401, identifier unread); 404 is answered only for a well-formed
\* identifier that no document of the collection has.
C2_InvalidIdentifier ==
    [][ resp'.op \in ByIdOps =>
          /\ ~WellFormed(resp'.id[1]) =>
                /\ resp'.status # 404
                /\ resp'.calls = 0
                /\ StoreUnchanged
                /\ (resp'.op = "get_product" \/ resp'.authorization = ValidHeader)
                      => resp'.status = 422
                /\ (resp'.op # "get_product" /\ resp'.authorization # ValidHeader)
                      => resp'.status = 401
          /\ resp'.status = 404 =>
                /\ WellFormed(resp'.id[1])
                /\ Matches(Before(resp'.op), resp'.id[1]) = {} ]_vars

C2_Witness ==
    /\ resp.op = "get_product"
    /\ ~WellFormed(resp.id[1])
    /\ resp.status = 422
    /\ product # <<>>

\* C3: with requests served one at a time, an authorized create_category
\* whose slug a stored category has is answered 400 and the collection is
\* unchanged; otherwise exactly one document, holding the payload, is
\* appended and returned with an "id" field and no "_id" field.
C3_CreateCategory ==
    [][ (resp'.op = "create_category" /\ resp'.authorization = ValidHeader) =>
          LET cat == resp'.payload[1]
          IN  IF \E i \in 1..Len(category) : category[i].slug = cat.slug
              THEN /\ resp'.status = 400
                   /\ StoreUnchanged
              ELSE /\ resp'.status = 200
                   /\ Len(category') = Len(category) + 1
                   /\ SubSeq(category', 1, Len(category)) = category
                   /\ product' = product
                   /\ LET new == category'[Len(category')]
                          out == resp'.body[1]
                      IN  /\ \A k \in DOMAIN cat : new[k] = cat[k]
                          /\ \A i \in 1..Len(category) :
                                 category[i]["_id"] # new["_id"]
                          /\ "id" \in DOMAIN out
                          /\ "_id" \notin DOMAIN out
                          /\ out["id"] = ObjectIdToStr(new["_id"])
                          /\ \A k \in DOMAIN cat : out[k] = cat[k] ]_vars

C3_Witness ==
    /\ resp.op = "create_category"
    /\ resp.authorization = ValidHeader
    /\ resp.status = 400
    /\ \E i \in 1..Len(category) : category[i].slug = resp.payload[1].slug

\* C4: no two stored categories have the same slug.
C4_SlugUnique ==
    \A i, j \in 1..Len(category) :
        i # j => category[i].slug # category[j].slug

\* C10: an authorized update or delete by a well-formed identifier: when no
\* document has the identifier the answer is 404 and nothing changes;
\* otherwise update leaves the number of documents and the identifier of the
\* addressed one as they were and gives it the payload's fields, delete
\* removes exactly that document, and every other document, the other
\* collection included, is unchanged.
C10_OneDocument ==
    [][ (/\ resp'.op \in {"update_category", "update_product",
                            "delete_category", "delete_product"}
         /\ resp'.authorization = ValidHeader
         /\ WellFormed(resp'.id[1])) =>
          LET old == Before(resp'.op)
              new == After(resp'.op)
              m == Matches(old, resp'.id[1])
          IN  /\ Cardinality(m) <= 1
              /\ nextId' = nextId
              /\ resp'.op \in CategoryOps => product' = product
              /\ resp'.op \notin CategoryOps => category' = category
              /\ m = {} => (resp'.status = 404 /\ new = old)
              /\ \A i \in m :
                    /\ resp'.status = 200
                    /\ IF resp'.op \in {"update_category", "update_product"}
                       THEN /\ Len(new) = Len(old)
                            /\ \A j \in 1..Len(old) : j # i => new[j] = old[j]
                            /\ new[i]["_id"] = old[i]["_id"]
                            /\ DOMAIN new[i] = DOMAIN old[i]
                            /\ \A k \in DOMAIN resp'.payload[1] :
                                   new[i][k] = resp'.payload[1][k]
                       ELSE new = Without(old, i) ]_vars

C10_Witness ==
    /\ resp.op = "update_category"
    /\ resp.authorization = ValidHeader
    /\ resp.id = Some(Pad \o <<"A", "1">>)
    /\ resp.status = 200
    /\ Len(category) = 2
    /\ category[1].slug = "pakaian"

-----------------------------------------------------------------------------
(* Properties of SpecRace *)

\* C8: the slug lookup and the insert of create_category are separate store
\* operations: two authorized creates of one slug that both pass the lookup
\* before either inserts (raced records such pairs) both complete with 200,
\* each returning the document it inserted, and the collection then holds
\* two categories with that slug.
C8_DuplicateSlugRace ==
    \A pair \in raced : \A c, d \in pair :
        (c # d /\ reqs[c].pc = "done" /\ reqs[d].pc = "done") =>
            /\ reqs[c].status = 200
            /\ reqs[d].status = 200
            /\ reqs[c].body # None
            /\ reqs[d].body # None
            /\ reqs[c].body[1]["id"] = reqs[c].new_id
            /\ reqs[d].body[1]["id"] = reqs[d].new_id
            /\ reqs[c].new_id # reqs[d].new_id
            /\ \E i, j \in 1..Len(category) :
                  /\ i # j
                  /\ ObjectIdToStr(category[i]["_id"]) = reqs[c].new_id
                  /\ ObjectIdToStr(category[j]["_id"]) = reqs[d].new_id
                  /\ category[i].slug = reqs[c].cat.slug
                  /\ category[j].slug = reqs[c].cat.slug

C8_Witness ==
    /\ {1, 2} \in raced
    /\ reqs[1].pc = "done"
    /\ reqs[2].pc = "done"
    /\ reqs[1].status = 200
    /\ reqs[2].status = 200
    /\ \E i, j \in 1..Len(category) :
          i # j /\ category[i].slug = category[j].slug

-----------------------------------------------------------------------------
(* Properties of SpecList and SpecPaging *)

\* the public form of a stored document: "id" in place of "_id"
Public(doc) ==
    [k \in ((DOMAIN doc) \ {"_id"}) \cup {"id"} |->
        IF k = "id" THEN ObjectIdToStr(doc["_id"]) ELSE doc[k]]

\* text occurs in name, case ignored
Contains(name, text) ==
    \E i \in 0..(Len(name) - Len(text)) :
        [j \in 1..Len(text) |-> Fold(name[i + j])]
            = [j \in 1..Len(text) |-> Fold(text[j])]

\* a filter is present when its parameter is given and, for text, not empty
Satisfies(doc, rq) ==
    /\ (rq.search # None /\ rq.search # Some(<<>>)) => Contains(doc.name, rq.search[1])
    /\ (rq.category # None /\ rq.category # Some("")) => doc.category = rq.category[1]
    /\ rq.minPrice # None => doc.price >= rq.minPrice[1]
    /\ rq.maxPrice # None => doc.price <= rq.maxPrice[1]

\* positions in the collection of the filtered set
Filtered(rq) == {i \in 1..Len(product) : Satisfies(product[i], rq)}

PositionOf(doc) == CHOOSE i \in 1..Len(product) : product[i] = doc

\* a may stand directly before b in a listing sorted as asked; with no
\* recognized sort key, in the store's natural order
InOrder(a, b, sort) ==
    IF sort = Some("price_asc") THEN a.price <= b.price
    ELSE IF sort = Some("price_desc") THEN a.price >= b.price
    ELSE IF sort = Some("name_asc") THEN ~LexLess(b.name, a.name)
    ELSE PositionOf(a) < PositionOf(b)

\* seq arranges the filtered set, each document once, sorted as asked
ArrangesFiltered(seq, rq) ==
    /\ Len(seq) = Cardinality(Filtered(rq))
    /\ \A i \in Filtered(rq) : \E k \in 1..Len(seq) : seq[k] = product[i]
    /\ \A k \in 1..(Len(seq) - 1) : InOrder(seq[k], seq[k + 1], rq.sort)

EffectivePage(rq) == IF rq.page < 1 THEN 1 ELSE rq.page

EffectiveLimit(rq) ==
    IF rq.limit \in 1..MaxLimit THEN rq.limit ELSE DefaultLimit

\* C5: the response reports the effective page and limit (page < 1 read as
\* 1, limit outside 1..100 read as 12) and the total of the filtered set, and
\* its items are the elements at positions (page-1)*limit+1 through
\* min(page*limit, total) of the filtered, sorted sequence, none when
\* (page-1)*limit >= total.
C5_Window ==
    resp.op = "list_products" =>
        LET p == EffectivePage(resp.req)
            l == EffectiveLimit(resp.req)
            first == (p - 1) * l + 1
            last == Min(p * l, resp.total)
        IN  /\ resp.page = p
            /\ resp.limit = l
            /\ resp.total = Cardinality(Filtered(resp.req))
            /\ ArrangesFiltered(resp.cursor, resp.req)
            /\ Len(resp.items) = (IF last >= first THEN last - first + 1 ELSE 0)
            /\ \A k \in 1..Len(resp.items) :
                   resp.items[k] = Public(resp.cursor[first + k - 1])

\* spec 8: search=shirt, page=2, limit=5 with 12 matches gives items 6-10
C5_Witness ==
    /\ resp.op = "list_products"
    /\ resp.req.search = Some(<<"s", "h", "i", "r", "t">>)
    /\ resp.req.category = None
    /\ resp.req.minPrice = None
    /\ resp.req.maxPrice = None
    /\ resp.req.sort = Some("price_asc")
    /\ resp.req.page = 2
    /\ resp.req.limit = 5
    /\ resp.total = 12
    /\ Len(resp.items) = 5
    /\ resp.items[1] = Public(resp.cursor[6])
    /\ resp.items[5] = Public(resp.cursor[10])

\* C6: the pages 1..ceil(total/limit) of a listing, concatenated, hold every
\* product of the filtered set exactly once, in the sorted order.
C6_PagesPartition ==
    (session # Idle /\ session.done) =>
        /\ Len(session.acc) = Cardinality(Filtered(session.req))
        /\ \A i \in Filtered(session.req) :
               Cardinality({k \in 1..Len(session.acc) :
                               session.acc[k] = Public(product[i])}) = 1
        /\ \A k \in 1..(Len(session.acc) - 1) :
               \E i, j \in Filtered(session.req) :
                   /\ session.acc[k] = Public(product[i])
                   /\ session.acc[k + 1] = Public(product[j])
                   /\ InOrder(product[i], product[j], session.req.sort)

\* C7: the filtered set is the products that satisfy all present filters
\* together; every item of a listing is one of them, so its price lies
\* within the bounds given; total is the size of that set whatever page,
\* limit and sort are; and the listing changes nothing in the store.
C7_Filters ==
    [][ resp'.op = "list_products" =>
          LET rq == resp'.req
          IN  /\ resp'.total = Cardinality(Filtered(rq))
              /\ \A k \in 1..Len(resp'.items) :
                    /\ \E i \in Filtered(rq) : resp'.items[k] = Public(product[i])
                    /\ rq.minPrice # None => resp'.items[k].price >= rq.minPrice[1]
                    /\ rq.maxPrice # None => resp'.items[k].price <= rq.maxPrice[1]
                    /\ (rq.category # None /\ rq.category # Some(""))
                          => resp'.items[k].category = rq.category[1]
              /\ StoreUnchanged ]_vars

C7_Witness ==
    /\ resp.op = "list_products"
    /\ resp.req.category = Some("elektronik")
    /\ resp.req.minPrice = None
    /\ resp.req.maxPrice = Some(0)
    /\ resp.req.search = None
    /\ Len(product) = 3
    /\ resp.total = 1
    /\ Len(resp.items) = 1
    /\ resp.items[1].price = 0

\* C9: the featured listing holds only featured products, in ascending name
\* order, and never more than limit of them, whatever integer limit is (none
\* for a limit of 0 or less).
C9_FeaturedCap ==
    resp.op = "featured_products" =>
        /\ \A k \in 1..Len(resp.items) : resp.items[k].featured = TRUE
        /\ \A k \in 1..(Len(resp.items) - 1) :
               ~LexLess(resp.items[k + 1].name, resp.items[k].name)
        /\ Len(resp.items) <= (IF resp.req.limit < 0 THEN 0 ELSE resp.req.limit)

====
